---- MODULE Spec2Model ----
(***************************************************************************)
(* Model of src/pipeline/__main__.py: the pose ETL pipeline.               *)
(*   main                    setup_database, glob, one job per video       *)
(*   extrair_keypoints       (E) capture of one video into a JSON artifact *)
(*   transformar_e_carregar  (T+L) flatten the artifact, INSERT OR IGNORE  *)
(* One process runs main; `pc` is its position. The environment supplies   *)
(* the videos, the store/file-system faults and a process crash during the *)
(* artifact write, and may start the program again (a new run).            *)
(***************************************************************************)
EXTENDS Integers, Sequences, FiniteSets

(* ------------------------------ bounds -------------------------------- *)
NumVideos == 3
MaxFrames == 2
NumLandmarks == 2
MaxRodadas == 2
MaxFalhas == 1
MaxLinhas == 2

VARIABLES
  videos,          \* glob result: per video, whether it opens and, per frame, whether a pose is detected
  arquivos,        \* KEYPOINTS_OUTPUT_DIR: per video, the JSON artifact on disk
  schema,          \* poses.db: whether table keypoints_normalizados exists
  tabela,          \* poses.db: the committed rows of keypoints_normalizados
  pc,              \* position of the process in main and its callees
  rodada,          \* number of the current run of the program
  i,               \* main: index of the current video_path in videos
  frame_count,     \* extrair_keypoints: local frame_count
  dados_brutos,    \* extrair_keypoints: local dados_brutos
  linhas_para_db,  \* transformar_e_carregar: local linhas_para_db
  conn,            \* transformar_e_carregar: local conn ("unbound" before the assignment)
  txn,             \* rows written through conn and not yet committed
  rowcount,        \* cursor.rowcount
  pose,            \* the module-level detector: the videos whose frames it has processed
  log,             \* per video, the log records emitted for it in this run
  falhas,          \* faults injected so far
  antes,           \* tabela when the current transformar_e_carregar started
  ant              \* end of the previous run: its tabela, log and final pc

vars == <<videos, arquivos, schema, tabela, pc, rodada, i, frame_count, dados_brutos,
          linhas_para_db, conn, txn, rowcount, pose, log, falhas, antes, ant>>

(* ------------------------------ data ---------------------------------- *)
\* A video file: abre = cap.isOpened(); frames[f] = results.pose_landmarks is truthy
\* for the f-th frame read.
RECURSIVE SeqsAte(_, _)
SeqsAte(S, n) ==
  IF n = 0 THEN {<<>>}
  ELSE LET menores == SeqsAte(S, n - 1)
       IN menores \cup {Append(s, x) : s \in {t \in menores : Len(t) = n - 1}, x \in S}

Video == {[abre |-> FALSE, frames |-> <<>>]}
           \cup {[abre |-> TRUE, frames |-> fs] : fs \in SeqsAte(BOOLEAN, MaxFrames)}

SemArquivo == [existe |-> FALSE, completo |-> FALSE, dados |-> <<>>]

Msg(nivel, msg, n) == [nivel |-> nivel, msg |-> msg, n |-> n]

\* mp_pose.PoseLandmark(idx).name
PoseLandmark(idx) == <<"LANDMARK", idx>>

\* landmark.x, .y, .z, .visibility returned by the detector for landmark idx of
\* frame f of video v (one abstract measurement)
Medida(v, f, idx) == <<v, f, idx>>

\* a frame_data numbered from 1
FrameData_base1(v, fc) ==
  [frame |-> fc + 1,
   landmarks |-> [k \in 1..NumLandmarks |->
                    [id |-> k - 1, nome |-> PoseLandmark(k - 1), x |-> Medida(v, fc, k - 1)]]]

\* lines 86-96: frame_data of the frame numbered fc of video v
FrameData(v, fc) ==
  [frame |-> fc,
   landmarks |-> [k \in 1..NumLandmarks |->
                    [id |-> k - 1, nome |-> PoseLandmark(k - 1), x |-> Medida(v, fc, k - 1)]]]

\* The key of a row: PRIMARY KEY (video_nome, frame, landmark_id)
Chave(r) == <<r.video_nome, r.frame, r.landmark_id>>

\* lines 134-144: the tuple appended to linhas_para_db for one landmark
Linha(video_nome, frame_id, landmark, data_proc_str) ==
  [video_nome |-> video_nome, frame |-> frame_id, landmark_id |-> landmark.id,
   landmark_nome |-> landmark.nome, x |-> landmark.x, data_processamento |-> data_proc_str]

\* a flattening that keeps one landmark per frame
RECURSIVE Achatar_um_por_frame(_, _, _)
Achatar_um_por_frame(video_nome, dados, data_proc_str) ==
  IF dados = <<>> THEN <<>>
  ELSE LET frame_data == Head(dados)
       IN [k \in 1..(IF Len(frame_data.landmarks) > 0 THEN 1 ELSE 0) |->
             Linha(video_nome, frame_data.frame, frame_data.landmarks[k], data_proc_str)]
          \o Achatar_um_por_frame(video_nome, Tail(dados), data_proc_str)

\* lines 128-144: the flattening of dados_brutos (as read back from the artifact)
RECURSIVE Achatar(_, _, _)
Achatar(video_nome, dados, data_proc_str) ==
  IF dados = <<>> THEN <<>>
  ELSE LET frame_data == Head(dados)
       IN [k \in 1..Len(frame_data.landmarks) |->
             Linha(video_nome, frame_data.frame, frame_data.landmarks[k], data_proc_str)]
          \o Achatar(video_nome, Tail(dados), data_proc_str)

\* INSERT into a table that has no key
InsertSemChave(visao, linha) == visao \cup {linha}

\* INSERT OR REPLACE
InsertOrReplace(visao, linha) ==
  {r \in visao : Chave(r) # Chave(linha)} \cup {linha}

\* lines 156-160: INSERT OR IGNORE of one row into the table as the connection sees it
InsertOrIgnore(visao, linha) ==
  IF \E r \in visao : Chave(r) = Chave(linha) THEN visao ELSE visao \cup {linha}

\* line 162: cursor.executemany(query, linhas): the table as the connection sees it
\* after the rows, in order
RECURSIVE ExecuteMany(_, _)
ExecuteMany(visao, linhas) ==
  IF linhas = <<>> THEN visao
  ELSE ExecuteMany(InsertOrIgnore(visao, Head(linhas)), Tail(linhas))

\* line 165: cursor.rowcount after executemany, the number of rows that changed the table
RECURSIVE RowCount(_, _)
RowCount(visao, linhas) ==
  IF linhas = <<>> THEN 0
  ELSE LET depois == InsertOrIgnore(visao, Head(linhas))
       IN (IF depois = visao THEN 0 ELSE 1) + RowCount(depois, Tail(linhas))

\* a close that flushes the open transaction
ConnClose_commit(committed, pendente) == pendente

\* lines 170-171: conn.close(); a transaction that was not committed is rolled back
ConnClose(committed, pendente) == committed

Registrar(l, v, m) == [l EXCEPT ![v] = @ \cup {m}]

\* a main without the try/except: the exception ends the run
ExceptException_propaga(l) ==
  /\ log' = l
  /\ pc' = "aborted"

\* lines 198-199: main catches any Exception of the video's job, logs it and goes on
ExceptException(l) ==
  /\ log' = Registrar(l, i, Msg("ERROR", "falha_ao_processar", 0))
  /\ pc' = "for"

\* an except clause that swallows the error without logging it
ExceptSqlite3Error_mudo ==
  /\ log' = log
  /\ pc' = "finally"

\* lines 167-168: except sqlite3.Error: log the error; the finally clause follows
ExceptSqlite3Error ==
  /\ log' = Registrar(log, i, Msg("ERROR", "erro_sqlite", 0))
  /\ pc' = "finally"

\* line 129: datetime.utcnow().isoformat(): the time of the i-th job of this run
utcnow == (rodada - 1) * NumVideos + i

(* ------------------------------ state --------------------------------- *)
Init ==
  /\ videos \in SeqsAte(Video, NumVideos)
  /\ arquivos = [v \in 1..NumVideos |-> SemArquivo]
  /\ schema = FALSE
  /\ tabela = {}
  /\ pc = "start"
  /\ rodada = 1
  /\ i = 0
  /\ frame_count = 0
  /\ dados_brutos = <<>>
  /\ linhas_para_db = <<>>
  /\ conn = "unbound"
  /\ txn = {}
  /\ rowcount = -1
  /\ pose = {}
  /\ log = [v \in 1..Len(videos) |-> {}]
  /\ falhas = 0
  /\ antes = {}
  /\ ant = [tabela |-> {}, log |-> [v \in 1..Len(videos) |-> {}], pc |-> "nenhuma"]

(* ------------------------------ main ---------------------------------- *)
\* lines 30-55, 178: setup_database creates the table if it does not exist
setup_database ==
  /\ pc = "start"
  /\ schema' = TRUE
  /\ pc' = "glob"
  /\ UNCHANGED <<videos, arquivos, tabela, rodada, i, frame_count, dados_brutos,
                 linhas_para_db, conn, txn, rowcount, pose, log, falhas, antes, ant>>

\* a main that catches the failure of setup_database and goes on to the videos
setup_database_falha_ignorada ==
  /\ pc = "start"
  /\ falhas < MaxFalhas
  /\ falhas' = falhas + 1
  /\ pc' = "glob"
  /\ UNCHANGED <<videos, arquivos, schema, tabela, rodada, i, frame_count, dados_brutos,
                 linhas_para_db, conn, txn, rowcount, pose, log, antes, ant>>

\* lines 33-34, 178: makedirs or connect raises; main does not catch it, the run ends
setup_database_falha ==
  /\ pc = "start"
  /\ falhas < MaxFalhas
  /\ falhas' = falhas + 1
  /\ pc' = "aborted"
  /\ UNCHANGED <<videos, arquivos, schema, tabela, rodada, i, frame_count, dados_brutos,
                 linhas_para_db, conn, txn, rowcount, pose, log, antes, ant>>

\* lines 181-186: glob; no video, return
main_glob ==
  /\ pc = "glob"
  /\ pc' = IF videos = <<>> THEN "done" ELSE "for"
  /\ i' = 0
  /\ UNCHANGED <<videos, arquivos, schema, tabela, rodada, frame_count, dados_brutos,
                 linhas_para_db, conn, txn, rowcount, pose, log, falhas, antes, ant>>

\* lines 189, 201: the for loop takes the next video_path, or the pipeline is concluded
main_for ==
  /\ pc = "for"
  /\ IF i < Len(videos)
     THEN i' = i + 1 /\ pc' = "extrair"
     ELSE i' = i /\ pc' = "done"
  /\ UNCHANGED <<videos, arquivos, schema, tabela, rodada, frame_count, dados_brutos,
                 linhas_para_db, conn, txn, rowcount, pose, log, falhas, antes, ant>>

(* ------------------------- extrair_keypoints -------------------------- *)
\* a capture that does not test cap.isOpened() and enters the read loop
extrair_abrir_sem_teste ==
  /\ pc = "extrair"
  /\ log' = Registrar(log, i, Msg("INFO", "extraindo", 0))
  /\ frame_count' = 0
  /\ dados_brutos' = <<>>
  /\ pc' = "read"
  /\ UNCHANGED <<videos, arquivos, schema, tabela, rodada, i,
                 linhas_para_db, conn, txn, rowcount, pose, falhas, antes, ant>>

\* lines 62-71: open the video; when it does not open, log and return None, which
\* main's tuple assignment (line 192) cannot unpack: TypeError, caught at line 198
extrair_abrir ==
  /\ pc = "extrair"
  /\ LET l == Registrar(log, i, Msg("INFO", "extraindo", 0))
     IN IF ~videos[i].abre
        THEN /\ ExceptException(Registrar(l, i, Msg("ERROR", "nao_abriu", 0)))
             /\ UNCHANGED <<frame_count, dados_brutos>>
        ELSE /\ log' = l
             /\ frame_count' = 0
             /\ dados_brutos' = <<>>
             /\ pc' = "read"
  /\ UNCHANGED <<videos, arquivos, schema, tabela, rodada, i,
                 linhas_para_db, conn, txn, rowcount, pose, falhas, antes, ant>>

\* a capture that numbers the recorded frames densely: the index is the ordinal
\* of the record among the recorded frames
extrair_frame_denso ==
  /\ pc = "read"
  /\ frame_count < Len(videos[i].frames)
  /\ pose' = pose \cup {i}
  /\ dados_brutos' = IF videos[i].frames[frame_count + 1]
                     THEN Append(dados_brutos, FrameData(i, Len(dados_brutos)))
                     ELSE dados_brutos
  /\ frame_count' = frame_count + 1
  /\ UNCHANGED <<videos, arquivos, schema, tabela, pc, rodada, i,
                 linhas_para_db, conn, txn, rowcount, log, falhas, antes, ant>>

\* a capture whose counter advances only on the frames without a pose: a recorded
\* frame carries the number of frames skipped before it
extrair_frame_conta_vazios ==
  /\ pc = "read"
  /\ frame_count < Len(videos[i].frames)
  /\ pose' = pose \cup {i}
  /\ dados_brutos' = IF videos[i].frames[frame_count + 1]
                     THEN Append(dados_brutos, FrameData(i, frame_count - Len(dados_brutos)))
                     ELSE dados_brutos
  /\ frame_count' = frame_count + 1
  /\ UNCHANGED <<videos, arquivos, schema, tabela, pc, rodada, i,
                 linhas_para_db, conn, txn, rowcount, log, falhas, antes, ant>>

\* lines 73-99: read one frame, run the module-level detector on it, record the
\* frame when a pose is detected, count the frame either way
extrair_frame ==
  /\ pc = "read"
  /\ frame_count < Len(videos[i].frames)
  /\ pose' = pose \cup {i}
  /\ dados_brutos' = IF videos[i].frames[frame_count + 1]
                     THEN Append(dados_brutos, FrameData(i, frame_count))
                     ELSE dados_brutos
  /\ frame_count' = frame_count + 1
  /\ UNCHANGED <<videos, arquivos, schema, tabela, pc, rodada, i,
                 linhas_para_db, conn, txn, rowcount, log, falhas, antes, ant>>

\* a capture that writes the artifact whether or not a frame was recorded
extrair_fim_sempre_salva ==
  /\ pc = "read"
  /\ frame_count = Len(videos[i].frames)
  /\ pc' = "dump"
  /\ UNCHANGED <<videos, arquivos, schema, tabela, rodada, i, frame_count, dados_brutos,
                 linhas_para_db, conn, txn, rowcount, pose, log, falhas, antes, ant>>

\* lines 75-76, 101-104, 112-113, 195: end of the video; with no frame recorded, warn
\* and return (None, None), and main skips transformar_e_carregar
extrair_fim ==
  /\ pc = "read"
  /\ frame_count = Len(videos[i].frames)
  /\ IF dados_brutos # <<>>
     THEN pc' = "dump" /\ log' = log
     ELSE pc' = "for" /\ log' = Registrar(log, i, Msg("WARNING", "nenhuma_pose", 0))
  /\ UNCHANGED <<videos, arquivos, schema, tabela, rodada, i, frame_count, dados_brutos,
                 linhas_para_db, conn, txn, rowcount, pose, falhas, antes, ant>>

\* a capture that returns the artifact's path as soon as the file is open, before
\* json.dump has written it
extrair_open_pula_dump ==
  /\ pc = "dump"
  /\ arquivos' = [arquivos EXCEPT ![i] = [existe |-> TRUE, completo |-> FALSE, dados |-> <<>>]]
  /\ pc' = "transformar"
  /\ UNCHANGED <<videos, schema, tabela, rodada, i, frame_count, dados_brutos,
                 linhas_para_db, conn, txn, rowcount, pose, log, falhas, antes, ant>>

\* lines 105-107: open(json_output_path, 'w') creates or truncates the artifact in place
extrair_open ==
  /\ pc = "dump"
  /\ arquivos' = [arquivos EXCEPT ![i] = [existe |-> TRUE, completo |-> FALSE, dados |-> <<>>]]
  /\ pc' = "dump_w"
  /\ UNCHANGED <<videos, schema, tabela, rodada, i, frame_count, dados_brutos,
                 linhas_para_db, conn, txn, rowcount, pose, log, falhas, antes, ant>>

\* lines 106-107: makedirs or open raises OSError; nothing was written
extrair_open_falha ==
  /\ pc = "dump"
  /\ falhas < MaxFalhas
  /\ falhas' = falhas + 1
  /\ ExceptException(log)
  /\ UNCHANGED <<videos, arquivos, schema, tabela, rodada, i, frame_count, dados_brutos,
                 linhas_para_db, conn, txn, rowcount, pose, antes, ant>>

\* lines 107-110, 195: json.dump writes dados_brutos, the with block closes the file
extrair_dump ==
  /\ pc = "dump_w"
  /\ arquivos' = [arquivos EXCEPT ![i] = [existe |-> TRUE, completo |-> TRUE, dados |-> dados_brutos]]
  /\ log' = Registrar(log, i, Msg("INFO", "extracao_concluida", frame_count))
  /\ pc' = "transformar"
  /\ UNCHANGED <<videos, schema, tabela, rodada, i, frame_count, dados_brutos,
                 linhas_para_db, conn, txn, rowcount, pose, falhas, antes, ant>>

\* line 108: json.dump raises OSError after j frame records reached the file
extrair_dump_falha ==
  /\ pc = "dump_w"
  /\ falhas < MaxFalhas
  /\ falhas' = falhas + 1
  /\ \E j \in 0..(Len(dados_brutos) - 1) :
       arquivos' = [arquivos EXCEPT ![i] =
                      [existe |-> TRUE, completo |-> FALSE, dados |-> SubSeq(dados_brutos, 1, j)]]
  /\ ExceptException(log)
  /\ UNCHANGED <<videos, schema, tabela, rodada, i, frame_count, dados_brutos,
                 linhas_para_db, conn, txn, rowcount, pose, antes, ant>>

\* line 108: the process is killed after j frame records reached the file
crash ==
  /\ pc = "dump_w"
  /\ falhas < MaxFalhas
  /\ falhas' = falhas + 1
  /\ \E j \in 0..(Len(dados_brutos) - 1) :
       arquivos' = [arquivos EXCEPT ![i] =
                      [existe |-> TRUE, completo |-> FALSE, dados |-> SubSeq(dados_brutos, 1, j)]]
  /\ pc' = "crashed"
  /\ UNCHANGED <<videos, schema, tabela, rodada, i, frame_count, dados_brutos,
                 linhas_para_db, conn, txn, rowcount, pose, log, antes, ant>>

(* ----------------------- transformar_e_carregar ----------------------- *)
\* a transform that removes the artifact once it has read it
transformar_apaga ==
  /\ pc = "transformar"
  /\ IF ~arquivos[i].completo
     THEN /\ ExceptException(log)
          /\ UNCHANGED <<linhas_para_db, conn, antes, arquivos>>
     ELSE /\ linhas_para_db' = Achatar(i, arquivos[i].dados, utcnow)
          /\ arquivos' = [arquivos EXCEPT ![i] = SemArquivo]
          /\ conn' = "unbound"
          /\ antes' = tabela
          /\ IF linhas_para_db' = <<>>
             THEN pc' = "for" /\ log' = Registrar(log, i, Msg("WARNING", "nenhuma_linha", 0))
             ELSE pc' = "connect" /\ log' = log
  /\ UNCHANGED <<videos, schema, tabela, rodada, i, frame_count, dados_brutos,
                 txn, rowcount, pose, falhas, ant>>

\* lines 119-148: read the artifact back and flatten it, one timestamp for the call;
\* an artifact that does not parse raises (json.JSONDecodeError), caught by main
transformar ==
  /\ pc = "transformar"
  /\ IF ~arquivos[i].completo
     THEN /\ ExceptException(log)
          /\ UNCHANGED <<linhas_para_db, conn, antes>>
     ELSE /\ linhas_para_db' = Achatar(i, arquivos[i].dados, utcnow)
          /\ conn' = "unbound"
          /\ antes' = tabela
          /\ IF linhas_para_db' = <<>>
             THEN pc' = "for" /\ log' = Registrar(log, i, Msg("WARNING", "nenhuma_linha", 0))
             ELSE pc' = "connect" /\ log' = log
  /\ UNCHANGED <<videos, arquivos, schema, tabela, rodada, i, frame_count, dados_brutos,
                 txn, rowcount, pose, falhas, ant>>

\* lines 152-153: conn = sqlite3.connect(db_path); cursor = conn.cursor()
carregar_connect ==
  /\ pc = "connect"
  /\ conn' = "open"
  /\ txn' = tabela
  /\ rowcount' = -1
  /\ pc' = "executemany"
  /\ UNCHANGED <<videos, arquivos, schema, tabela, rodada, i, frame_count, dados_brutos,
                 linhas_para_db, pose, log, falhas, antes, ant>>

\* line 152: sqlite3.connect raises sqlite3.Error; conn stays unbound
carregar_connect_falha ==
  /\ pc = "connect"
  /\ falhas < MaxFalhas
  /\ falhas' = falhas + 1
  /\ ExceptSqlite3Error
  /\ UNCHANGED <<videos, arquivos, schema, tabela, rodada, i, frame_count, dados_brutos,
                 linhas_para_db, conn, txn, rowcount, pose, antes, ant>>

\* line 162: cursor.executemany inside the connection's implicit transaction; without
\* the table the statement raises sqlite3.OperationalError
carregar_executemany ==
  /\ pc = "executemany"
  /\ IF schema
     THEN /\ txn' = ExecuteMany(txn, linhas_para_db)
          /\ rowcount' = RowCount(txn, linhas_para_db)
          /\ pc' = "commit"
          /\ log' = log
     ELSE /\ ExceptSqlite3Error
          /\ UNCHANGED <<txn, rowcount>>
  /\ UNCHANGED <<videos, arquivos, schema, tabela, rodada, i, frame_count, dados_brutos,
                 linhas_para_db, conn, pose, falhas, antes, ant>>

\* line 162: executemany raises sqlite3.Error after j rows were executed
carregar_executemany_falha ==
  /\ pc = "executemany"
  /\ falhas < MaxFalhas
  /\ falhas' = falhas + 1
  /\ \E j \in 0..(Len(linhas_para_db) - 1) :
       txn' = ExecuteMany(txn, SubSeq(linhas_para_db, 1, j))
  /\ ExceptSqlite3Error
  /\ UNCHANGED <<videos, arquivos, schema, tabela, rodada, i, frame_count, dados_brutos,
                 linhas_para_db, conn, rowcount, pose, antes, ant>>

\* lines 163-165: conn.commit() makes the transaction's rows the table's rows; the
\* number of inserted rows is logged
carregar_commit ==
  /\ pc = "commit"
  /\ tabela' = txn
  /\ log' = Registrar(log, i, Msg("INFO", "sucesso", rowcount))
  /\ pc' = "finally"
  /\ UNCHANGED <<videos, arquivos, schema, rodada, i, frame_count, dados_brutos,
                 linhas_para_db, conn, txn, rowcount, pose, falhas, antes, ant>>

\* line 163: conn.commit() raises sqlite3.Error; the transaction stays open
carregar_commit_falha ==
  /\ pc = "commit"
  /\ falhas < MaxFalhas
  /\ falhas' = falhas + 1
  /\ ExceptSqlite3Error
  /\ UNCHANGED <<videos, arquivos, schema, tabela, rodada, i, frame_count, dados_brutos,
                 linhas_para_db, conn, txn, rowcount, pose, antes, ant>>

\* lines 169-171: finally: if conn: conn.close(); reading the unbound local conn
\* raises UnboundLocalError, which main catches
carregar_finally ==
  /\ pc = "finally"
  /\ IF conn = "unbound"
     THEN /\ ExceptException(log)
          /\ UNCHANGED <<conn, tabela, txn>>
     ELSE /\ conn' = "closed"
          /\ tabela' = ConnClose(tabela, txn)
          /\ txn' = {}
          /\ pc' = "for"
          /\ log' = log
  /\ UNCHANGED <<videos, arquivos, schema, rodada, i, frame_count, dados_brutos,
                 linhas_para_db, rowcount, pose, falhas, antes, ant>>

(* ---------------------------- environment ----------------------------- *)
\* lines 203-204, 22-27: the program is started again over the same videos: a new
\* process, a new module-level detector, the files and the database as they were left
rerun ==
  /\ pc \in {"done", "aborted", "crashed"}
  /\ rodada < MaxRodadas
  /\ rodada' = rodada + 1
  /\ ant' = [tabela |-> tabela, log |-> log, pc |-> pc]
  /\ pc' = "start"
  /\ i' = 0
  /\ frame_count' = 0
  /\ dados_brutos' = <<>>
  /\ linhas_para_db' = <<>>
  /\ conn' = "unbound"
  /\ txn' = {}
  /\ rowcount' = -1
  /\ pose' = {}
  /\ log' = [v \in 1..Len(videos) |-> {}]
  /\ UNCHANGED <<videos, arquivos, schema, tabela, falhas, antes>>

Programa ==
  \/ setup_database
  \/ main_glob
  \/ main_for
  \/ extrair_abrir
  \/ extrair_frame
  \/ extrair_fim
  \/ extrair_open
  \/ extrair_dump
  \/ transformar
  \/ carregar_connect
  \/ carregar_executemany
  \/ carregar_commit
  \/ carregar_finally

Falha ==
  \/ setup_database_falha
  \/ extrair_open_falha
  \/ extrair_dump_falha
  \/ carregar_connect_falha
  \/ carregar_executemany_falha
  \/ carregar_commit_falha

Next == Programa \/ Falha \/ crash \/ rerun

Spec == Init /\ [][Next]_vars

\* The job steps keep running (one process, no blocking call without a result); the
\* faults and the reruns are the environment's and need not happen.
FairNext == Programa \/ Falha \/ rerun

FairSpec == Init /\ [][FairNext]_vars /\ WF_vars(Programa)

(* ------------------- the load applied to given rows ------------------- *)
\* Rows of one video (frames 0 and 1, landmark 0), each in two versions that differ
\* in data_processamento
LinhasDeTeste ==
  {Linha(1, f, [id |-> 0, nome |-> PoseLandmark(0), x |-> Medida(1, f, 0)], d) :
     f \in 0..1, d \in 0..1}

TabelasDeTeste ==
  {t \in SUBSET LinhasDeTeste : \A r1, r2 \in t : Chave(r1) = Chave(r2) => r1 = r2}

\* lines 150-171 entered with linhas_para_db any non-empty row sequence and the table
\* in any state that respects its key
InitLoad ==
  /\ videos = <<[abre |-> TRUE, frames |-> <<TRUE>>]>>
  /\ arquivos = [v \in 1..NumVideos |-> SemArquivo]
  /\ schema = TRUE
  /\ tabela \in TabelasDeTeste
  /\ pc = "connect"
  /\ rodada = 1
  /\ i = 1
  /\ frame_count = 0
  /\ dados_brutos = <<>>
  /\ linhas_para_db \in SeqsAte(LinhasDeTeste, MaxLinhas) \ {<<>>}
  /\ conn = "unbound"
  /\ txn = {}
  /\ rowcount = -1
  /\ pose = {}
  /\ log = [v \in 1..1 |-> {}]
  /\ falhas = 0
  /\ antes = tabela
  /\ ant = [tabela |-> tabela, log |-> [v \in 1..1 |-> {}], pc |-> "nenhuma"]

\* the same linhas_para_db is loaded once more
recarregar ==
  /\ pc = "done"
  /\ rodada < MaxRodadas
  /\ rodada' = rodada + 1
  /\ ant' = [tabela |-> tabela, log |-> log, pc |-> pc]
  /\ log' = [v \in 1..1 |-> {}]
  /\ antes' = tabela
  /\ conn' = "unbound"
  /\ txn' = {}
  /\ rowcount' = -1
  /\ pc' = "connect"
  /\ UNCHANGED <<videos, arquivos, schema, tabela, i, frame_count, dados_brutos,
                 linhas_para_db, pose, falhas>>

NextLoad ==
  \/ carregar_connect
  \/ carregar_connect_falha
  \/ carregar_executemany
  \/ carregar_executemany_falha
  \/ carregar_commit
  \/ carregar_commit_falha
  \/ carregar_finally
  \/ main_for
  \/ recarregar

SpecLoad == InitLoad /\ [][NextLoad]_vars

(* ----------------------------- properties ----------------------------- *)
Tem(l, v, msg) == \E m \in l[v] : m.msg = msg
TemNivel(l, v, nivel) == \E m \in l[v] : m.nivel = nivel
Nomes == 1..Len(videos)
DaVideo(t, v) == {r \in t : r.video_nome = v}
Detectados(v) == {f \in 1..Len(videos[v].frames) : videos[v].frames[f]}
Valido(v) == videos[v].abre /\ Detectados(v) # {}
TamLote(v) == NumLandmarks * Cardinality(Detectados(v))

\* C1: in every reachable state of the store, no two rows of keypoints_normalizados
\* share the triple (video_nome, frame, landmark_id).
C1_ChaveUnica ==
  \A r1, r2 \in tabela : Chave(r1) = Chave(r2) => r1 = r2

\* a second run has committed a load whose rows were all already stored
C1_Witness ==
  /\ rodada = 2
  /\ pc = "finally"
  /\ Tem(log, i, "sucesso")
  /\ rowcount = 0
  /\ \E k \in 1..Len(linhas_para_db) : \E r \in tabela :
       Chave(r) = Chave(linhas_para_db[k]) /\ r # linhas_para_db[k]

\* C2: first write wins. No step of the pipeline deletes or changes a stored row: every
\* row of the store is still in it after the step, and it is the only row with its key,
\* so an incoming row with a stored key is dropped.
C2_PrimeiraEscritaVence ==
  [][\A r \in tabela :
       /\ r \in tabela'
       /\ \A s \in tabela' : Chave(s) = Chave(r) => s = r]_vars

\* a load has ended whose batch held a row with a stored key and other values
C2_Witness ==
  /\ pc = "for"
  /\ i >= 1
  /\ Tem(log, i, "sucesso")
  /\ conn = "closed"
  /\ \E k \in 1..Len(linhas_para_db) : \E r \in antes :
       /\ Chave(r) = Chave(linhas_para_db[k])
       /\ r.data_processamento # linhas_para_db[k].data_processamento
       /\ r \in tabela

\* C3: load is idempotent. After a load of linhas_para_db that committed, loading the
\* same sequence again leaves the table as the first load left it, and a second load
\* that commits reports 0 inserted rows.
C3_CargaIdempotente ==
  (pc = "done" /\ rodada >= 2 /\ Tem(ant.log, 1, "sucesso")) =>
     /\ tabela = ant.tabela
     /\ \A m \in log[1] : m.msg = "sucesso" => m.n = 0

\* both loads committed and the first one inserted rows
C3_Witness ==
  /\ pc = "done"
  /\ rodada = 2
  /\ \E m \in ant.log[1] : m.msg = "sucesso" /\ m.n > 0
  /\ Tem(log, 1, "sucesso")
  /\ tabela # {}

\* C4: the load of one video's rows is atomic. While the load runs the table is the
\* table before it; a load that failed (at connect, at a row of executemany or at
\* commit) leaves the table equal to the table before it; a load that succeeded leaves
\* the table before it plus every row of the batch whose key was new.
C4_CargaAtomica ==
  /\ pc \in {"connect", "executemany", "commit"} => tabela = antes
  /\ (pc \in {"finally", "for"} /\ i >= 1 /\ Tem(log, i, "erro_sqlite")) => tabela = antes
  /\ (pc \in {"finally", "for"} /\ i >= 1 /\ Tem(log, i, "sucesso")) =>
        tabela = antes \cup
                 {linhas_para_db[k] : k \in {n \in 1..Len(linhas_para_db) :
                                               \A r \in antes : Chave(r) # Chave(linhas_para_db[n])}}

\* a commit failed after executemany had inserted rows, and the connection is closed
C4_Witness ==
  /\ pc = "for"
  /\ i >= 1
  /\ Tem(log, i, "erro_sqlite")
  /\ conn = "closed"
  /\ rowcount > 0
  /\ tabela = antes

\* C5: failure isolation. Once setup_database has succeeded, every enumerated video is
\* eventually attempted (extrair_keypoints is called for it), whatever happened to the
\* videos before it.
C5_TodoVideoTentado ==
  (pc = "glob") ~> (\A v \in Nomes : Tem(log, v, "extraindo"))

\* a video is attempted after the job of an earlier video hit a store error and the
\* job of another one could not open its video
C5_Witness ==
  \E u, v, w \in Nomes :
    /\ u < w /\ v < w
    /\ Tem(log, u, "erro_sqlite")
    /\ Tem(log, v, "nao_abriu")
    /\ Tem(log, w, "extraindo")

\* the rows, without data_processamento, that the frames of video v with a detection
\* flatten to
SemData(r) ==
  [video_nome |-> r.video_nome, frame |-> r.frame, landmark_id |-> r.landmark_id,
   landmark_nome |-> r.landmark_nome, x |-> r.x]
Esperado(v) ==
  {[video_nome |-> v, frame |-> f - 1, landmark_id |-> k, landmark_nome |-> PoseLandmark(k),
    x |-> Medida(v, f - 1, k)] : f \in Detectados(v), k \in 0..(NumLandmarks - 1)}

\* C6 as stated: after a run that started from an empty store, the store holds exactly
\* the flattened rows of the videos that open and have at least one detected frame.
C6_Original ==
  (pc = "done" /\ ant.tabela = {}) =>
     {SemData(r) : r \in tabela} = UNION {Esperado(v) : v \in {w \in Nomes : Valido(w)}}

\* C6 amended: after a run that started from an empty store, the store holds exactly
\* the flattened rows of the videos that open, have at least one detected frame and
\* whose job logged no error (no artifact write failure, no store error); a video that
\* does not open or has no detection contributes no row.
C6_LinhasDosVideosValidos ==
  (pc = "done" /\ ant.tabela = {}) =>
     /\ {SemData(r) : r \in tabela}
          = UNION {Esperado(v) : v \in {w \in Nomes : Valido(w) /\ ~TemNivel(log, w, "ERROR")}}
     /\ Cardinality(tabela)
          = Cardinality({SemData(r) : r \in tabela})
     /\ \A v \in Nomes : ~Valido(v) => DaVideo(tabela, v) = {}

\* the run ended over a video that does not open, a video with no detection and a
\* video with every frame detected, whose rows are in the store
C6_Witness ==
  /\ pc = "done"
  /\ rodada = 1
  /\ \E a, b, c \in Nomes :
       /\ ~videos[a].abre
       /\ videos[b].abre /\ Len(videos[b].frames) = MaxFrames
       /\ Cardinality(Detectados(b)) = MaxFrames
       /\ videos[c].abre /\ Len(videos[c].frames) > 0 /\ Detectados(c) = {}
       /\ Cardinality(tabela) = MaxFrames * NumLandmarks
       /\ DaVideo(tabela, b) = tabela

\* the outcome of video v as the log of the run records it
Sucedido(v) == Tem(log, v, "sucesso")
Pulado(v) == TemNivel(log, v, "WARNING")
Falhou(v) == TemNivel(log, v, "ERROR")

\* C7: at the end of a run every enumerated video has exactly one recorded outcome
\* among succeeded, skipped and failed; a video with no detection is skipped and not
\* failed; a video that does not open, or whose load hit a store error, is failed and
\* not succeeded.
C7_UmResultadoPorVideo ==
  pc = "done" =>
    \A v \in Nomes :
      /\ Cardinality({o \in {"s", "p", "f"} :
                        \/ o = "s" /\ Sucedido(v)
                        \/ o = "p" /\ Pulado(v)
                        \/ o = "f" /\ Falhou(v)}) = 1
      /\ (videos[v].abre /\ Detectados(v) = {}) => (Pulado(v) /\ ~Falhou(v))
      /\ ~videos[v].abre => (Falhou(v) /\ ~Sucedido(v))
      /\ Tem(log, v, "erro_sqlite") => (Falhou(v) /\ ~Sucedido(v))

\* a run ended with one video succeeded, one skipped and one failed on a store error
C7_Witness ==
  /\ pc = "done"
  /\ \E a, b, c \in Nomes :
       /\ Sucedido(a)
       /\ Pulado(b)
       /\ Tem(log, c, "erro_sqlite")

\* the number of inserted rows the load of video v logged in the run with log l
Inseridos(l, v) == CHOOSE n \in 0..(MaxFrames * NumLandmarks) : \E m \in l[v] : m.msg = "sucesso" /\ m.n = n

\* C8 as stated: a second run over the same videos leaves the store as the first run
\* left it, and each load of the second run inserts 0 rows and skips as many rows as
\* the first run inserted for that video.
C8_Original ==
  (pc = "done" /\ rodada >= 2 /\ ant.pc = "done") =>
     /\ tabela = ant.tabela
     /\ \A v \in Nomes : Sucedido(v) =>
          /\ Inseridos(log, v) = 0
          /\ TamLote(v) - Inseridos(log, v)
               = (IF Tem(ant.log, v, "sucesso") THEN Inseridos(ant.log, v) ELSE 0)

\* C8 amended: for every video whose load committed in the first run, the second run
\* changes none of its rows, and a load of the second run that commits inserts 0 rows
\* and skips every row of its batch, which is the number the first run inserted
\* whenever the first run inserted its whole batch; when the load of every video with
\* detections committed in the first run, the store after the second run is the store
\* after the first.
C8_ReexecucaoSegura ==
  (pc = "done" /\ rodada >= 2 /\ ant.pc = "done") =>
     /\ (\A v \in Nomes : Valido(v) => Tem(ant.log, v, "sucesso")) => tabela = ant.tabela
     /\ \A v \in Nomes : Tem(ant.log, v, "sucesso") =>
          /\ DaVideo(tabela, v) = DaVideo(ant.tabela, v)
          /\ Sucedido(v) =>
               /\ Inseridos(log, v) = 0
               /\ TamLote(v) - Inseridos(log, v) = TamLote(v)
               /\ Inseridos(ant.log, v) = TamLote(v) =>
                    TamLote(v) - Inseridos(log, v) = Inseridos(ant.log, v)

\* two complete runs in which the load of the same video committed, the first one
\* inserting rows
C8_Witness ==
  /\ pc = "done"
  /\ rodada = 2
  /\ ant.pc = "done"
  /\ \E v \in Nomes :
       /\ Tem(ant.log, v, "sucesso")
       /\ Inseridos(ant.log, v) = MaxFrames * NumLandmarks
       /\ Sucedido(v)
       /\ Inseridos(log, v) = 0

\* C9: the artifact at a video's path is never a partially written one: it is absent
\* or complete (the previous one or the new one).
C9_ArtefatoNuncaParcial ==
  \A v \in 1..NumVideos : arquivos[v].existe => arquivos[v].completo

\* C10: every detector call made while capturing a video runs on a detector that has
\* processed frames of that video only.
C10_DetectorPorVideo ==
  (pc = "read" /\ frame_count < Len(videos[i].frames)) => pose \subseteq {i}

(* ------------------- transform and load called again ------------------ *)
\* lines 115-171: transformar_e_carregar(video_nome, json_path, db_path) is called once
\* more for the video whose load has just failed, on the artifact left on disk
retry ==
  /\ pc = "for"
  /\ i >= 1
  /\ Tem(log, i, "erro_sqlite")
  /\ ~Tem(log, i, "sucesso")
  /\ pc' = "transformar"
  /\ UNCHANGED <<videos, arquivos, schema, tabela, rodada, i, frame_count, dados_brutos,
                 linhas_para_db, conn, txn, rowcount, pose, log, falhas, antes, ant>>

NextRetry == Next \/ retry

SpecRetry == Init /\ [][NextRetry]_vars

\* C11: the artifact is a checkpoint. When the load of a video has failed, the video's
\* artifact is on disk, complete and equal to what was captured; while transform and
\* load run again on it no frame is read, the detector is not called and the artifact
\* is not written; and when that second call commits, the store holds the rows it held
\* before the failed load plus the flattened rows of the video (data_processamento
\* aside), as a successful first load would have left it.
C11_ArtefatoCheckpoint ==
  [][/\ (pc' = "for" /\ i' >= 1 /\ Tem(log', i', "erro_sqlite")) =>
          arquivos'[i'] = [existe |-> TRUE, completo |-> TRUE, dados |-> dados_brutos']
     /\ (pc \in {"transformar", "connect", "executemany", "commit", "finally"}
           /\ Tem(log, i, "erro_sqlite")) =>
          /\ pose' = pose
          /\ frame_count' = frame_count
          /\ arquivos' = arquivos
     /\ (pc' = "for" /\ i' >= 1 /\ Tem(log', i', "erro_sqlite") /\ Tem(log', i', "sucesso")) =>
          /\ {SemData(r) : r \in tabela'} = {SemData(r) : r \in antes'} \cup Esperado(i')
          /\ tabela' = antes' \cup
               {linhas_para_db'[k] : k \in {n \in 1..Len(linhas_para_db') :
                                             \A r \in antes' : Chave(r) # Chave(linhas_para_db'[n])}}
    ]_vars

\* the load of a video failed at commit and the second call on its artifact committed
\* the video's rows
C11_Witness ==
  /\ pc = "for"
  /\ i >= 1
  /\ Tem(log, i, "erro_sqlite")
  /\ Tem(log, i, "sucesso")
  /\ Inseridos(log, i) = TamLote(i)
  /\ DaVideo(tabela, i) # {}

\* the frame indices recorded in a sequence of frame_data
Indices(dados) == {dados[k].frame : k \in 1..Len(dados)}

\* C12: capture is sparse and indexes frames by their position in the video. During
\* the capture loop and in every complete artifact there is exactly one record per
\* frame read in which a pose was detected, its index is the 0-based position of the
\* frame in the video (frames without detection advance the counter too), and no
\* record exists for a frame without detection.
C12_CapturaEsparsa ==
  /\ (pc \in {"read", "dump", "dump_w"}) =>
       LET lidos == {f \in Detectados(i) : f <= frame_count}
       IN /\ Len(dados_brutos) = Cardinality(lidos)
          /\ Indices(dados_brutos) = {f - 1 : f \in lidos}
  /\ \A v \in Nomes : arquivos[v].completo =>
       /\ Len(arquivos[v].dados) = Cardinality(Detectados(v))
       /\ Indices(arquivos[v].dados) = {f - 1 : f \in Detectados(v)}

\* an artifact was written for a video whose first frame has no pose and whose second
\* frame has one: its only record carries index 1
C12_Witness ==
  \E v \in Nomes :
    /\ arquivos[v].completo
    /\ ~videos[v].frames[1]
    /\ Len(arquivos[v].dados) = 1
    /\ arquivos[v].dados[1].frame = 1

(* ------------- transform and load applied to a given artifact --------- *)
\* lines 86-97: the frame_data lists an artifact can hold: frame indices strictly
\* increasing, each frame with the landmarks 0..n-1 of the detector, n from 0 up
FramesDeTeste ==
  {[frame |-> f, landmarks |-> SubSeq(FrameData(1, f).landmarks, 1, n)] :
     f \in 0..(MaxFrames - 1), n \in 0..NumLandmarks}

ArtefatosDeTeste ==
  {a \in SeqsAte(FramesDeTeste, MaxFrames) :
     \A k \in 1..(Len(a) - 1) : a[k].frame < a[k + 1].frame}

\* lines 115-171 entered for one video whose artifact is any such list, with the table
\* in any state that respects its key
InitArtefato ==
  /\ videos = <<[abre |-> TRUE, frames |-> <<TRUE>>]>>
  /\ \E a \in ArtefatosDeTeste :
       arquivos = [v \in 1..NumVideos |->
                     IF v = 1 THEN [existe |-> TRUE, completo |-> TRUE, dados |-> a]
                     ELSE SemArquivo]
  /\ schema = TRUE
  /\ tabela \in TabelasDeTeste
  /\ pc = "transformar"
  /\ rodada = 1
  /\ i = 1
  /\ frame_count = 0
  /\ dados_brutos = <<>>
  /\ linhas_para_db = <<>>
  /\ conn = "unbound"
  /\ txn = {}
  /\ rowcount = -1
  /\ pose = {}
  /\ log = [v \in 1..1 |-> {}]
  /\ falhas = 0
  /\ antes = tabela
  /\ ant = [tabela |-> tabela, log |-> [v \in 1..1 |-> {}], pc |-> "nenhuma"]

NextArtefato ==
  \/ transformar
  \/ carregar_connect
  \/ carregar_connect_falha
  \/ carregar_executemany
  \/ carregar_executemany_falha
  \/ carregar_commit
  \/ carregar_commit_falha
  \/ carregar_finally

SpecArtefato == InitArtefato /\ [][NextArtefato]_vars

\* the number of landmarks recorded in a list of frame_data
RECURSIVE SomaLandmarks(_)
SomaLandmarks(dados) ==
  IF dados = <<>> THEN 0 ELSE Len(Head(dados).landmarks) + SomaLandmarks(Tail(dados))

\* C13: the row count round-trips. The transform of an artifact yields as many rows as
\* the artifact's frames hold landmarks in total, and a load that commits into a store
\* that held no row of that video reports exactly that many rows inserted and leaves
\* that many rows of the video in the store.
C13_ContagemDeLinhas ==
  /\ (pc \in {"connect", "executemany", "commit", "finally"}) =>
       Len(linhas_para_db) = SomaLandmarks(arquivos[i].dados)
  /\ (pc \in {"finally", "for"} /\ Tem(log, i, "sucesso") /\ DaVideo(antes, i) = {}) =>
       /\ Inseridos(log, i) = SomaLandmarks(arquivos[i].dados)
       /\ Cardinality(DaVideo(tabela, i)) = SomaLandmarks(arquivos[i].dados)

\* an artifact whose two frames hold different numbers of landmarks was loaded into a
\* store without rows of the video
C13_Witness ==
  /\ pc = "for"
  /\ Tem(log, i, "sucesso")
  /\ DaVideo(antes, i) = {}
  /\ Len(arquivos[i].dados) = 2
  /\ Len(arquivos[i].dados[1].landmarks) # Len(arquivos[i].dados[2].landmarks)
  /\ Inseridos(log, i) = 3

\* C14: a failure of setup_database is fatal to the run. The step in which it fails
\* ends the run; in the aborted run no video was taken from the list, the detector was
\* not called, nothing was logged for any video, no connection is open, and the
\* artifacts and the store are as the step found them; the only thing that follows an
\* aborted run is a new run, which finds the same artifacts and store.
C14_FalhaDeConfiguracaoAborta ==
  [][/\ (pc = "start" /\ falhas' # falhas) => pc' = "aborted"
     /\ (pc' = "aborted") =>
          /\ i' = 0
          /\ pose' = {}
          /\ \A v \in 1..Len(videos') : log'[v] = {}
          /\ conn' # "open"
          /\ txn' = {}
          /\ arquivos' = arquivos
          /\ tabela' = tabela
     /\ (pc = "aborted") =>
          /\ pc' = "start"
          /\ rodada' = rodada + 1
          /\ arquivos' = arquivos
          /\ tabela' = tabela
    ]_vars

\* the second run over videos with poses aborted in setup_database, after a first run
\* that had stored rows
C14_Witness ==
  /\ pc = "aborted"
  /\ rodada = 2
  /\ tabela # {}
  /\ \E v \in Nomes : Valido(v) /\ arquivos[v].completo

\* line 165: the counts the success message of a load carries: cursor.rowcount, the
\* number of rows inserted, and nothing else (the function returns None)
Contagens(m) == <<m.n>>

\* C15: a load that succeeded reports two counts, inserted and skipped: inserted is the
\* number of rows of the batch whose key was absent from the store before the load,
\* skipped the number whose key was present, and the two add up to the batch size.
C15_DuasContagens ==
  (pc = "finally" /\ Tem(log, i, "sucesso")) =>
     \A m \in {n \in log[i] : n.msg = "sucesso"} :
        LET novas == {k \in 1..Len(linhas_para_db) :
                        \A r \in antes : Chave(r) # Chave(linhas_para_db[k])}
        IN /\ Len(Contagens(m)) = 2
           /\ Contagens(m)[1] = Cardinality(novas)
           /\ Contagens(m)[2] = Len(linhas_para_db) - Cardinality(novas)
           /\ Contagens(m)[1] + Contagens(m)[2] = Len(linhas_para_db)

\* C16: when the video does not open, the capture fails and the job of that video is
\* over in that step: the error is logged, the loop goes to the next video, no frame is
\* read, the detector is not called, no artifact is written or replaced and the store
\* (and any transaction on it) is unchanged.
C16_VideoNaoAbre ==
  [][(pc = "extrair" /\ ~videos[i].abre) =>
        /\ pc' = "for"
        /\ i' = i
        /\ Tem(log', i, "nao_abriu")
        /\ Falhou(i)'
        /\ ~Tem(log', i, "sucesso")
        /\ frame_count' = frame_count
        /\ dados_brutos' = dados_brutos
        /\ pose' = pose
        /\ arquivos' = arquivos
        /\ tabela' = tabela
        /\ txn' = txn
        /\ conn' = conn
    ]_vars

\* a video that does not open was tried after a video whose rows are stored, and the
\* loop is about to go on
C16_Witness ==
  /\ pc = "for"
  /\ i >= 2
  /\ ~videos[i].abre
  /\ Tem(log, i, "nao_abriu")
  /\ DaVideo(tabela, i - 1) # {}
  /\ DaVideo(tabela, i) = {}

\* C17: when the video ends with no frame recorded, the capture reports the no-pose
\* condition as a warning and not as an error, writes no artifact, and main goes to the
\* next video without running the transform or the load: the job of that video is over
\* in that step, with the artifacts, the rows read for loading, the connection and the
\* store unchanged.
C17_NenhumaPose ==
  [][(pc = "read" /\ frame_count = Len(videos[i].frames) /\ dados_brutos = <<>>) =>
        /\ pc' = "for"
        /\ i' = i
        /\ Tem(log', i, "nenhuma_pose")
        /\ TemNivel(log', i, "WARNING")
        /\ ~TemNivel(log', i, "ERROR")
        /\ ~Tem(log', i, "sucesso")
        /\ arquivos' = arquivos
        /\ linhas_para_db' = linhas_para_db
        /\ antes' = antes
        /\ conn' = conn
        /\ txn' = txn
        /\ tabela' = tabela
    ]_vars

\* a video whose frames were all read without a pose was skipped after a video whose
\* rows are stored, and it has no artifact
C17_Witness ==
  /\ pc = "for"
  /\ i >= 2
  /\ Tem(log, i, "nenhuma_pose")
  /\ Len(videos[i].frames) = MaxFrames
  /\ ~arquivos[i].existe
  /\ DaVideo(tabela, i - 1) # {}
  /\ DaVideo(tabela, i) = {}

\* the frame indices of a list of frame_data increase strictly in list order
Crescente(dados) ==
  \A j, k \in 1..Len(dados) : j < k => dados[j].frame < dados[k].frame

\* C18: at every step of the capture loop, and in every artifact on disk (complete or
\* being written), the frame indices of the records are strictly increasing in list
\* order and so pairwise distinct; every index recorded in the loop is below the
\* number of frames read so far.
C18_IndicesCrescentes ==
  /\ Crescente(dados_brutos)
  /\ (pc \in {"read", "dump", "dump_w"}) =>
        \A k \in 1..Len(dados_brutos) : dados_brutos[k].frame < frame_count
  /\ \A v \in 1..NumVideos :
        /\ Crescente(arquivos[v].dados)
        /\ Cardinality(Indices(arquivos[v].dados)) = Len(arquivos[v].dados)

\* the capture loop has recorded two frames of a video and the artifact of another
\* video holds two records
C18_Witness ==
  /\ pc = "read"
  /\ Len(dados_brutos) = 2
  /\ dados_brutos[1].frame < dados_brutos[2].frame
  /\ \E v \in Nomes : v # i /\ arquivos[v].completo /\ Len(arquivos[v].dados) = 2

\* the job of video v has reached its outcome in this run
Concluido(v) == Sucedido(v) \/ Pulado(v) \/ Falhou(v)

\* C19: within a run the stages are ordered per video and not interleaved across
\* videos. While the transform or the load of a video runs, all its frames have been
\* read and its artifact is complete and holds what was captured; the rows being
\* loaded are the flattening of the artifact as it is on disk, and any row the store has
\* gained since the load began is one of them; while a video is captured no connection
\* is open and no transaction is pending; at every moment the videos before the
\* current one have reached their outcome and nothing has been done for the videos
\* after it.
C19_EstagiosOrdenados ==
  /\ (pc \in {"transformar", "connect", "executemany", "commit", "finally"}) =>
        /\ frame_count = Len(videos[i].frames)
        /\ arquivos[i] = [existe |-> TRUE, completo |-> TRUE, dados |-> dados_brutos]
  /\ (pc \in {"connect", "executemany", "commit", "finally"}) =>
        /\ linhas_para_db = Achatar(i, arquivos[i].dados, utcnow)
        /\ tabela \ antes \subseteq {linhas_para_db[k] : k \in 1..Len(linhas_para_db)}
        /\ txn \ antes \subseteq {linhas_para_db[k] : k \in 1..Len(linhas_para_db)}
  /\ (pc \in {"extrair", "read", "dump", "dump_w", "transformar"}) =>
        /\ conn # "open"
        /\ txn = {}
        /\ ~Concluido(i)
  /\ (pc \in {"extrair", "read", "dump", "dump_w", "transformar",
              "connect", "executemany", "commit", "finally", "for"}) =>
        /\ \A v \in Nomes : v < i => Concluido(v)
        /\ \A v \in Nomes : v > i => log[v] = {}
        /\ pose \subseteq 1..i

\* the load of the second video is inserting the rows of its artifact after the load
\* of the first video has committed
C19_Witness ==
  /\ pc = "commit"
  /\ i >= 2
  /\ Sucedido(i - 1)
  /\ DaVideo(tabela, i - 1) # {}
  /\ txn # tabela
  /\ arquivos[i].completo

====
